---- MODULE Spec2Model ----
(***************************************************************************)
(* Record lifecycle engine of fast_alchemy_models: fill/save/create/       *)
(* update/delete/upsert/get_or_create of the active-record mixin, the      *)
(* soft-delete layer with its historical snapshots, the process-wide user  *)
(* context and the chunked asynchronous bulk_create.                       *)
(*                                                                         *)
(* Storage is the relational table behind one entity type: a set of rows   *)
(* with `id` as its single primary-key column (unique, assigned by the     *)
(* storage when absent).  A session stages one unit of work; commit        *)
(* applies it or raises, rollback discards it.                             *)
(*                                                                         *)
(* Specifications: Spec (the lifecycle of one entity type), SpecFill       *)
(* (fill), SpecBulk (bulk_create_async), SpecDestroy (primary-key          *)
(* resolution, find and destroy), SpecConc (two callers updating one row)  *)
(* and SpecUser (the user context under a second caller).                  *)
(***************************************************************************)
EXTENDS Integers, Sequences, FiniteSets, TLC

VARIABLES kind, rows, hist, user, now, pc, call, ncalls

vars == <<kind, rows, hist, user, now, pc, call, ncalls>>

\* ------------------------------------------------------------------ bounds
MaxCalls == 3
MaxTime == 2
MaxLoggedCalls == 2
MaxObjs == 5
MaxBatch == 3

\* Python's None, for integer-valued columns and for the current actor.
None == 0

Ids == {1, 2}
Vals == {1, 2}
Times == 1..MaxTime
Actors == {1}

\* The entity types: a plain active-record type, a soft-delete type without
\* history (__historical__ falsy) and one with a historical shadow type.
Kinds == {"base", "layered", "historical"}

\* ------------------------------------------------------------ pure helpers
\* kwargs is a Python dict: a sequence of <<name, value>> in insertion order.
Keys(kwargs) == {kwargs[i][1] : i \in 1..Len(kwargs)}

\* kwargs.get(name): the value, or None when the key is absent.
Get(kwargs, name) ==
    IF \E i \in 1..Len(kwargs) : kwargs[i][1] = name
    THEN LET i == CHOOSE j \in 1..Len(kwargs) : kwargs[j][1] = name IN kwargs[i][2]
    ELSE None

\* kwargs[name] = value: an existing key keeps its place, a new one goes last.
DictSet(kwargs, name, value) ==
    IF name \in Keys(kwargs)
    THEN [i \in 1..Len(kwargs) |->
            IF kwargs[i][1] = name THEN <<name, value>> ELSE kwargs[i]]
    ELSE Append(kwargs, <<name, value>>)

\* ------------------------------------------------------------ the entities
\* The columns of the live table, in declaration order (to_dict's order).
Columns == <<"id", "val", "updated_at", "updated_by_id", "deleted">>

\* cls(): a fresh, unpersisted instance; every column is still unset.
NewEntity ==
    [id |-> None, val |-> None, updated_at |-> None, updated_by_id |-> None,
     deleted |-> None]

\* The historical type's own columns, added to a copy of the live columns.
NewHistorical ==
    [history_id |-> None, history_type |-> "ADD", history_user_id |-> None,
     id |-> None, val |-> None, updated_at |-> None, updated_by_id |-> None,
     deleted |-> None]

settable_attributes(self) == DOMAIN self

\* item.to_dict(): every column with its value.
to_dict(self) == [i \in 1..Len(Columns) |-> <<Columns[i], self[Columns[i]]>>]

\* fill(**kwargs): assigns name by name in the dict's order and raises
\* KeyError at the first name that is no settable attribute.
RECURSIVE fill_skips_unknown(_, _)
fill_skips_unknown(self, kwargs) ==
    IF kwargs = <<>>
    THEN [self |-> self, raised |-> FALSE]
    ELSE LET name == Head(kwargs)[1]
             value == Head(kwargs)[2]
         IN IF name \in settable_attributes(self)
            THEN fill_skips_unknown([self EXCEPT ![name] = value],
                                    Tail(kwargs))
            ELSE fill_skips_unknown(self, Tail(kwargs))

RECURSIVE fill(_, _)
fill(self, kwargs) ==
    IF kwargs = <<>>
    THEN [self |-> self, raised |-> FALSE]
    ELSE LET name == Head(kwargs)[1]
             value == Head(kwargs)[2]
         IN IF name \in settable_attributes(self)
            THEN fill([self EXCEPT ![name] = value], Tail(kwargs))
            ELSE [self |-> self, raised |-> TRUE]

\* ---------------------------------------------------------------- queries
\* cls.where(id=i, deleted=None): the live rows with that primary key.
where_id_live(table, i) == {r \in table : r.id = i /\ r.deleted = None}

\* cls.find(i): the row with that primary key, deleted or not.
find(table, i) == {r \in table : r.id = i}

\* FastAlchemyModel.all(): where(deleted=None).all().
all(table) == {r \in table : r.deleted = None}

\* An unfiltered query (cls.query.all()).
query_all(table) == table

\* cls.where(name=value): the rows that pass the filter given, and no other
\* filter (the accessor is the mixin's own; the entity types do not override
\* it).
where(table, name, value) == {r \in table : r[name] = value}

\* all_async(): select_async() without filters, then .all().
all_async(table) == table

\* --------------------------------------------------------------- arguments
ArgNames == {"id", "val", "bogus"}

ArgVals(name) ==
    CASE name = "id" -> Ids
      [] name = "val" -> Vals
      [] OTHER -> {1}

Pairs == {<<n, v>> : n \in ArgNames, v \in Ids \cup Vals} 

ValidPairs == {p \in Pairs : p[2] \in ArgVals(p[1])}

\* Every dict of at most two distinct argument names, in every order.
KwargsSet ==
    UNION {{k \in [1..n -> ValidPairs] :
               \A i, j \in 1..n : i # j => k[i][1] # k[j][1]} : n \in 0..2}

\* ------------------------------------------------------ storage and session
\* The primary key the storage assigns to a row inserted without one.
NextId(table) ==
    IF table = {} THEN 1
    ELSE (CHOOSE m \in {r.id : r \in table} : \A r \in table : r.id <= m) + 1

\* The row a staged new instance becomes once inserted.
Stored(table, self) ==
    IF self.id = None THEN [self EXCEPT !.id = NextId(table)] ELSE self

\* The table's primary-key constraint on the staged unit of work: the key is
\* present and no other row holds it.
constraint_ok(table, c) ==
    CASE c.staged = "add" /\ c.target = None ->
            find(table, Stored(table, c.self).id) = {}
      [] c.staged = "add" /\ c.target # None ->
            /\ c.self.id # None
            /\ (c.self.id = c.target \/ find(table, c.self.id) = {})
      [] OTHER -> TRUE

flush_lost(table, c) == table

\* session.commit() succeeding: the staged unit of work reaches the table.
flush(table, c) ==
    CASE c.staged = "add" /\ c.target = None ->
            table \cup {Stored(table, c.self)}
      [] c.staged = "add" /\ c.target # None ->
            (table \ find(table, c.target)) \cup {c.self}
      [] c.staged = "delete" ->
            table \ find(table, c.target)
      [] OTHER -> table

\* The error session.commit() raises: the constraint's, or a failure of the
\* storage itself.
commit_error(table, c) ==
    IF constraint_ok(table, c) THEN "OperationalError" ELSE "IntegrityError"

rollback_missing(table, c) ==
    CASE c.staged = "add" /\ c.target = None ->
            table \cup {Stored(table, c.self)}
      [] c.staged = "add" /\ c.target # None ->
            (table \ find(table, c.target)) \cup {c.self}
      [] c.staged = "delete" ->
            table \ find(table, c.target)
      [] OTHER -> table

rollback_all(table, c) == c.entry.rows

\* session.rollback(): the staged unit of work is discarded.
rollback(table, c) == table

\* The instance after a successful commit: what the table now holds for it.
refreshed(table, c) ==
    IF c.staged = "add" /\ c.target = None THEN Stored(table, c.self) ELSE c.self

\* ------------------------------------------------------------------ calls
\* One call of the caller: the method, the branch it took, the instance it
\* works on (and returns), what its session holds, how it ended, what it
\* issued, and (entry) the storage as the call found it.  A blocking call
\* runs its fill, its session.add and its commit or rollback to the end on
\* the caller's thread: one step.  The snapshot write of a historicized type
\* is the call's second transaction: a second step.
NoCall ==
    [op |-> "none", mode |-> "sync", via |-> "none", key |-> None,
     target |-> None, self |-> NewEntity, staged |-> "none",
     action |-> "ADD", outcome |-> "none",
     commits |-> 0, rollbacks |-> 0, snaps |-> 0,
     entry |-> [rows |-> {}, hist |-> <<>>]]

\* self.fill(**kwargs) and session.add(self): fill raises KeyError, or the
\* instance is staged.
fill_add(c, before, kwargs) ==
    LET f == fill(before, kwargs)
    IN [c EXCEPT !.self = f.self,
                 !.entry = [rows |-> rows, hist |-> hist],
                 !.staged = IF f.raised THEN "none" ELSE "add",
                 !.outcome = IF f.raised THEN "KeyError" ELSE "running"]

\* The call ends by raising: nothing is returned to the caller.
raised(c, error) ==
    [c EXCEPT !.self = NewEntity, !.staged = "none", !.outcome = error]

\* Whether the call goes on to write a snapshot (if cls.__historical__).
writes_history(c) == kind = "historical"

\* The call's record once its commit has returned.
committed(table, c) ==
    [c EXCEPT !.commits = @ + 1, !.staged = "none",
              !.self = refreshed(table, c),
              !.target = IF c.staged = "delete" THEN c.target
                         ELSE refreshed(table, c).id,
              !.outcome = IF writes_history(c) THEN "running" ELSE "ok"]

flush_or_fail_retry(c) ==
    \/ /\ constraint_ok(rows, c)
       /\ rows' = flush(rows, c)
       /\ call' = committed(rows, c)
       /\ pc' = IF writes_history(c) THEN "history" ELSE "done"
    \/ /\ rows' = rollback(rows, c)
       /\ call' = [raised(c, commit_error(rows, c))
                      EXCEPT !.commits = @ + 2, !.rollbacks = @ + 1]
       /\ pc' = "done"

\* _flush_or_fail(): session.commit() returns, or it raises (a storage
\* failure, or the primary-key constraint) and the session is rolled back
\* and the error re-raised.
flush_or_fail(c) ==
    \/ /\ constraint_ok(rows, c)
       /\ rows' = flush(rows, c)
       /\ call' = committed(rows, c)
       /\ pc' = IF writes_history(c) THEN "history" ELSE "done"
    \/ /\ rows' = rollback(rows, c)
       /\ call' = [raised(c, commit_error(rows, c))
                      EXCEPT !.commits = @ + 1, !.rollbacks = @ + 1]
       /\ pc' = "done"

\* The rest of a blocking call once fill has run: save(), or the KeyError.
save(c) ==
    IF c.outcome = "KeyError"
    THEN rows' = rows /\ call' = raised(c, "KeyError") /\ pc' = "done"
    ELSE flush_or_fail(c)

\* A call that returns an instance it found, touching nothing.
found(c, instance) ==
    /\ rows' = rows
    /\ call' = [c EXCEPT !.via = "hit", !.target = instance.id,
                         !.self = instance, !.outcome = "ok",
                         !.entry = [rows |-> rows, hist |-> hist]]
    /\ pc' = "done"

\* The caller is between calls and takes the next one.
\* (The model stops taking calls at the bound; a historicized type, whose
\* every call has a second transaction, is explored to MaxLoggedCalls.)
CallBound == IF kind = "historical" THEN MaxLoggedCalls ELSE MaxCalls

Idle == pc = "idle" /\ ncalls < CallBound /\ ncalls' = ncalls + 1

\* The model takes no insert whose assigned key would leave Ids.
CanInsert(kwargs) == "id" \in Keys(kwargs) \/ NextId(rows) \in Ids

\* ------------------------------------------ CustomActiveRecordMixin (sync)
AR_create_call(op, kwargs) ==
    fill_add([NoCall EXCEPT !.op = op, !.via = "create",
                            !.key = Get(kwargs, "id")], NewEntity, kwargs)

AR_update_call(op, self, kwargs) ==
    fill_add([NoCall EXCEPT !.op = op, !.via = "update", !.target = self.id,
                            !.key = Get(kwargs, "id")], self, kwargs)

AR_create(kwargs) ==
    /\ Idle /\ kind = "base" /\ CanInsert(kwargs)
    /\ save(AR_create_call("create", kwargs))
    /\ UNCHANGED <<kind, hist, user, now>>

AR_update(self, kwargs) ==
    /\ Idle /\ kind = "base"
    /\ save(AR_update_call("update", self, kwargs))
    /\ UNCHANGED <<kind, hist, user, now>>

\* delete(): session.delete(self), then _flush_or_fail().
AR_delete(self) ==
    /\ Idle /\ kind = "base"
    /\ flush_or_fail([NoCall EXCEPT !.op = "delete", !.via = "delete",
                         !.target = self.id, !.self = self,
                         !.staged = "delete", !.outcome = "running",
                         !.entry = [rows |-> rows, hist |-> hist]])
    /\ UNCHANGED <<kind, hist, user, now>>

\* get_or_create: find by primary key; a hit is returned as it is.
AR_get_or_create(kwargs) ==
    /\ Idle /\ kind = "base" /\ CanInsert(kwargs)
    /\ LET instance == find(rows, Get(kwargs, "id"))
       IN IF instance # {}
          THEN found([NoCall EXCEPT !.op = "get_or_create",
                                    !.key = Get(kwargs, "id")],
                     CHOOSE r \in instance : TRUE)
          ELSE save(AR_create_call("get_or_create", kwargs))
    /\ UNCHANGED <<kind, hist, user, now>>

AR_upsert(kwargs) ==
    /\ Idle /\ kind = "base" /\ CanInsert(kwargs)
    /\ LET instance == find(rows, Get(kwargs, "id"))
       IN IF instance # {}
          THEN save(AR_update_call("upsert", CHOOSE r \in instance : TRUE,
                                   kwargs))
          ELSE save(AR_create_call("upsert", kwargs))
    /\ UNCHANGED <<kind, hist, user, now>>

\* ------------------------------------------------ AsyncRecordMixin (async)
\* save_async(): in its own session, session.add(self) and the awaited
\* commit; on any error the awaited rollback, and the error re-raised.
save_async(c) ==
    IF c.outcome = "KeyError"
    THEN rows' = rows /\ call' = raised(c, "KeyError") /\ pc' = "done"
    ELSE \/ /\ constraint_ok(rows, c)
            /\ rows' = flush(rows, c)
            /\ call' = committed(rows, c)
            /\ pc' = "done"
         \/ /\ rows' = rollback(rows, c)
            /\ call' = [raised(c, commit_error(rows, c))
                           EXCEPT !.commits = @ + 1, !.rollbacks = @ + 1]
            /\ pc' = "done"

\* create_async(**kwargs): cls().fill(**kwargs).save_async().
create_async(kwargs) ==
    /\ Idle /\ kind = "base" /\ CanInsert(kwargs)
    /\ save_async([AR_create_call("create", kwargs) EXCEPT !.mode = "async"])
    /\ UNCHANGED <<kind, hist, user, now>>

\* update_async(**kwargs): self.fill(**kwargs).save_async().
update_async(self, kwargs) ==
    /\ Idle /\ kind = "base"
    /\ save_async([AR_update_call("update", self, kwargs)
                      EXCEPT !.mode = "async"])
    /\ UNCHANGED <<kind, hist, user, now>>

\* delete_async(): session.sync_session.delete(self) and the awaited commit;
\* on error the rollback and the re-raise; the flush of the finally clause
\* finds the session empty either way.
delete_async(self) ==
    /\ Idle /\ kind = "base"
    /\ LET c == [NoCall EXCEPT !.op = "delete", !.mode = "async",
                               !.via = "delete", !.target = self.id,
                               !.self = self, !.staged = "delete",
                               !.outcome = "running",
                               !.entry = [rows |-> rows, hist |-> hist]]
       IN \/ /\ rows' = flush(rows, c)
             /\ call' = committed(rows, c)
             /\ pc' = "done"
          \/ /\ rows' = rollback(rows, c)
             /\ call' = [raised(c, commit_error(rows, c))
                            EXCEPT !.commits = @ + 1, !.rollbacks = @ + 1]
             /\ pc' = "done"
    /\ UNCHANGED <<kind, hist, user, now>>

\* What the call hands back to its caller, as a set: the instance (save and
\* save_async return self, delete_async returns self), or nothing (the
\* blocking delete has no return statement; a call that raised returns
\* nothing).
returns(c) ==
    IF c.outcome # "ok" \/ (c.op = "delete" /\ c.mode = "sync")
    THEN {}
    ELSE {c.self}

\* ------------------------------------ FastAlchemyModel / SafeDeleteBase
\* if self.user: kwargs["updated_by_id"] = self.user.id
stamp_user(kwargs, u) ==
    IF u # None THEN DictSet(kwargs, "updated_by_id", u) ELSE kwargs

\* create(**kwargs): stamps the actor, then cls().fill(**kwargs).save().
FAM_create_call(op, kwargs, u) ==
    fill_add([NoCall EXCEPT !.op = op, !.via = "create", !.action = "ADD",
                            !.key = Get(kwargs, "id")],
             NewEntity, stamp_user(kwargs, u))

FAM_update_call_revives(op, self, kwargs, t, u) ==
    fill_add([NoCall EXCEPT !.op = op, !.via = "update", !.action = "UPDATE",
                            !.target = self.id, !.key = Get(kwargs, "id")],
             self,
             stamp_user(DictSet(DictSet(kwargs, "updated_at", t),
                                "deleted", None), u))

\* update(**kwargs): stamps updated_at and the actor, then the base update.
FAM_update_call(op, self, kwargs, t, u) ==
    fill_add([NoCall EXCEPT !.op = op, !.via = "update", !.action = "UPDATE",
                            !.target = self.id, !.key = Get(kwargs, "id")],
             self, stamp_user(DictSet(kwargs, "updated_at", t), u))

FAM_delete_call_physical(self, t1, t2, u) ==
    [NoCall EXCEPT !.op = "delete", !.via = "delete", !.action = "DEL",
                   !.target = self.id, !.self = self, !.staged = "delete",
                   !.outcome = "running",
                   !.entry = [rows |-> rows, hist |-> hist]]

FAM_delete_call_as_update(self, t1, t2, u) ==
    fill_add([NoCall EXCEPT !.op = "delete", !.via = "delete",
                            !.action = "UPDATE", !.target = self.id],
             self,
             stamp_user(<<<<"updated_at", t1>>, <<"deleted", t2>>>>, u))

FAM_delete_call_guarded(self, t1, t2, u) ==
    fill_add([NoCall EXCEPT !.op = "delete", !.via = "delete",
                            !.action = "DEL", !.target = self.id],
             self,
             IF self.deleted # None THEN <<>>
             ELSE stamp_user(<<<<"updated_at", t1>>, <<"deleted", t2>>>>, u))

\* delete(): the base update with updated_at and deleted set to the clock.
FAM_delete_call(self, t1, t2, u) ==
    fill_add([NoCall EXCEPT !.op = "delete", !.via = "delete",
                            !.action = "DEL", !.target = self.id],
             self,
             stamp_user(<<<<"updated_at", t1>>, <<"deleted", t2>>>>, u))

FAM_create(kwargs) ==
    /\ Idle /\ kind # "base" /\ CanInsert(kwargs)
    /\ save(FAM_create_call("create", kwargs, user))
    /\ UNCHANGED <<kind, hist, user, now>>

FAM_update(self, kwargs) ==
    /\ Idle /\ kind # "base"
    /\ save(FAM_update_call("update", self, kwargs, now, user))
    /\ UNCHANGED <<kind, hist, user, now>>

\* The two clock reads of delete() may straddle a tick.
FAM_delete(self, t2) ==
    /\ Idle /\ kind # "base"
    /\ t2 \in {now, now + 1} \cap Times
    /\ save(FAM_delete_call(self, now, t2, user))
    /\ now' = t2
    /\ UNCHANGED <<kind, hist, user>>

\* upsert: the lookup is where(id=kwargs.get("id"), deleted=None).first().
FAM_upsert(kwargs) ==
    /\ Idle /\ kind # "base" /\ CanInsert(kwargs)
    /\ LET instance == where_id_live(rows, Get(kwargs, "id"))
       IN IF instance # {}
          THEN save(FAM_update_call("upsert", CHOOSE r \in instance : TRUE,
                                    kwargs, now, user))
          ELSE save(FAM_create_call("upsert", kwargs, user))
    /\ UNCHANGED <<kind, hist, user, now>>

FAM_get_or_create_applies(kwargs) ==
    /\ Idle /\ kind # "base" /\ CanInsert(kwargs)
    /\ LET instance == where_id_live(rows, Get(kwargs, "id"))
       IN IF instance # {}
          THEN save(FAM_update_call("get_or_create",
                                    CHOOSE r \in instance : TRUE,
                                    kwargs, now, user))
          ELSE save(FAM_create_call("get_or_create", kwargs, user))
    /\ UNCHANGED <<kind, hist, user, now>>

FAM_get_or_create(kwargs) ==
    /\ Idle /\ kind # "base" /\ CanInsert(kwargs)
    /\ LET instance == where_id_live(rows, Get(kwargs, "id"))
       IN IF instance # {}
          THEN found([NoCall EXCEPT !.op = "get_or_create",
                                    !.key = Get(kwargs, "id")],
                     CHOOSE r \in instance : TRUE)
          ELSE save(FAM_create_call("get_or_create", kwargs, user))
    /\ UNCHANGED <<kind, hist, user, now>>

\* ----------------------------------------------------------- HistoricalBase
historical_kwargs_unstamped(self, action, u) ==
    DictSet(to_dict(self), "history_type", action)

\* The kwargs of create_historical_record(action, **item.to_dict()).
historical_kwargs(self, action, u) ==
    LET k == DictSet(to_dict(self), "history_type", action)
    IN IF u # None THEN DictSet(k, "history_user_id", u) ELSE k

snapshot_reuses_key(log, self, action, u) ==
    [fill(NewHistorical, historical_kwargs(self, action, u)).self
        EXCEPT !.history_id = IF log = <<>> THEN 1 ELSE Len(log)]

\* The snapshot row: cls().fill(**kwargs), its own key assigned on insert.
snapshot(log, self, action, u) ==
    [fill(NewHistorical, historical_kwargs(self, action, u)).self
        EXCEPT !.history_id = Len(log) + 1]

\* create_historical_record: fill and save on the historical type, the
\* commit returning.
create_historical_record ==
    /\ pc = "history"
    /\ hist' = Append(hist, snapshot(hist, call.self, call.action, user))
    /\ call' = [call EXCEPT !.commits = @ + 1, !.snaps = @ + 1,
                            !.outcome = "ok"]
    /\ pc' = "done"
    /\ UNCHANGED <<kind, rows, user, now, ncalls>>

\* create_historical_record: the snapshot's commit raises; its session is
\* rolled back and the error leaves the live call, whose instance is already
\* committed.
create_historical_record_raise ==
    /\ pc = "history"
    /\ rows' = rollback(rows, call)
    /\ call' = [call EXCEPT !.commits = @ + 1, !.rollbacks = @ + 1,
                            !.outcome = "history_error"]
    /\ pc' = "done"
    /\ UNCHANGED <<kind, hist, user, now, ncalls>>

\* The caller has the call's result (the instance or the error) and goes on.
Return ==
    /\ pc = "done"
    /\ pc' = "idle"
    /\ call' = NoCall
    /\ UNCHANGED <<kind, rows, hist, user, now, ncalls>>

\* ------------------------------------------------------------ environment
\* UserContext.set_user(user): the process-wide actor.
set_user(u) ==
    /\ pc = "idle"
    /\ user' = u
    /\ UNCHANGED <<kind, rows, hist, now, pc, call, ncalls>>

\* The wall clock (datetime.utcnow()) advances.
Tick ==
    /\ pc = "idle"
    /\ now < MaxTime
    /\ now' = now + 1
    /\ UNCHANGED <<kind, rows, hist, user, pc, call, ncalls>>

\* -------------------------------------------------------- the specification
Init ==
    /\ kind \in Kinds
    /\ rows = {}
    /\ hist = <<>>
    /\ user = None
    /\ now = 1
    /\ pc = "idle"
    /\ call = NoCall
    /\ ncalls = 0

Next ==
    \/ \E kwargs \in KwargsSet : AR_create(kwargs)
    \/ \E self \in rows, kwargs \in KwargsSet : AR_update(self, kwargs)
    \/ \E self \in rows : AR_delete(self)
    \/ \E kwargs \in KwargsSet : AR_get_or_create(kwargs)
    \/ \E kwargs \in KwargsSet : AR_upsert(kwargs)
    \/ \E kwargs \in KwargsSet : create_async(kwargs)
    \/ \E self \in rows, kwargs \in KwargsSet : update_async(self, kwargs)
    \/ \E self \in rows : delete_async(self)
    \/ \E kwargs \in KwargsSet : FAM_create(kwargs)
    \/ \E self \in rows, kwargs \in KwargsSet : FAM_update(self, kwargs)
    \/ \E self \in rows, t2 \in Times : FAM_delete(self, t2)
    \/ \E kwargs \in KwargsSet : FAM_upsert(kwargs)
    \/ \E kwargs \in KwargsSet : FAM_get_or_create(kwargs)
    \/ create_historical_record
    \/ create_historical_record_raise
    \/ Return
    \/ \E u \in Actors \cup {None} : set_user(u)
    \/ Tick

Spec == Init /\ [][Next]_vars

\* ------------------------------------------------------- fill, on its own
\* The dicts fill is tried on: up to three distinct names, in every order.
FillKwargsSet ==
    UNION {{k \in [1..n -> ValidPairs] :
               \A i, j \in 1..n : i # j => k[i][1] # k[j][1]} : n \in 0..3}

\* The instances fill is tried on: fresh ones and loaded rows.
FillEntities ==
    {[NewEntity EXCEPT !.id = i, !.val = v, !.deleted = d] :
        i \in Ids \cup {None}, v \in Vals \cup {None}, d \in {None, 1}}

\* The caller calls self.fill(**kwargs) on an instance it holds.
fill_call ==
    /\ pc = "idle"
    /\ LET f == fill(call.before, call.kwargs)
       IN call' = [call EXCEPT !.self = f.self,
                      !.outcome = IF f.raised THEN "KeyError" ELSE "ok"]
    /\ pc' = "done"
    /\ UNCHANGED <<kind, rows, hist, user, now, ncalls>>

InitFill ==
    /\ kind = "base"
    /\ rows = {}
    /\ hist = <<>>
    /\ user = None
    /\ now = 1
    /\ pc = "idle"
    /\ ncalls = 0
    /\ call \in {[op |-> "fill", before |-> e, kwargs |-> k, self |-> e,
                  outcome |-> "none"] :
                    e \in FillEntities, k \in FillKwargsSet}

NextFill == fill_call

SpecFill == InitFill /\ [][NextFill]_vars

\* ------------------------------------------- bulk_create_async, on its own
Min(a, b) == IF a <= b THEN a ELSE b

\* The k-th object of a bulk call: settable fields, fields with a name that
\* is no attribute, or fields with an explicit primary key.
ObjKinds == {"ok", "bad", "dup"}

Obj(k, what) ==
    CASE what = "ok" -> <<<<"val", k>>>>
      [] what = "bad" -> <<<<"val", k>>, <<"bogus", 1>>>>
      [] OTHER -> <<<<"id", 1>>, <<"val", k>>>>

ObjsSet ==
    UNION {{[k \in 1..n |-> Obj(k, w[k])] : w \in [1..n -> ObjKinds]} :
              n \in 0..MaxObjs}

\* objs[i : i + batch_size]
chunk_off_by_one(objs, i, batch_size) ==
    SubSeq(objs, i + 1, Min(i + batch_size + 1, Len(objs)))

chunk(objs, i, batch_size) ==
    SubSeq(objs, i + 1, Min(i + batch_size, Len(objs)))

first_raise_swallowed(objs_to_add) == 0

\* [cls().fill(**obj) for obj in objs_to_add]: the instances, or the place
\* of the first object whose fill raises (the later ones are not built).
first_raise(objs_to_add) ==
    IF \A j \in 1..Len(objs_to_add) : ~fill(NewEntity, objs_to_add[j]).raised
    THEN 0
    ELSE CHOOSE j \in 1..Len(objs_to_add) :
            /\ fill(NewEntity, objs_to_add[j]).raised
            /\ \A h \in 1..(j - 1) : ~fill(NewEntity, objs_to_add[h]).raised

built(objs_to_add) ==
    [j \in 1..Len(objs_to_add) |-> fill(NewEntity, objs_to_add[j]).self]

\* session.add_all(objs_to_add) and the commit: the inserts in their order.
RECURSIVE add_all_ok(_, _)
add_all_ok(table, instances) ==
    IF instances = <<>> THEN TRUE
    ELSE /\ find(table, Stored(table, Head(instances)).id) = {}
         /\ add_all_ok(table \cup {Stored(table, Head(instances))},
                       Tail(instances))

RECURSIVE add_all(_, _)
add_all(table, instances) ==
    IF instances = <<>> THEN table
    ELSE add_all(table \cup {Stored(table, Head(instances))}, Tail(instances))

\* bulk_create_async(objs, batch_size) is called: the loop is at i = 0.
bulk_create_async(objs, batch_size) ==
    /\ pc = "idle"
    /\ call' = [op |-> "bulk_create", mode |-> "async", objs |-> objs,
                batch_size |-> batch_size, i |-> 0, attempted |-> 0,
                chunks |-> <<>>, outcome |-> "running",
                commits |-> 0, rollbacks |-> 0,
                entry |-> [rows |-> rows, hist |-> hist]]
    /\ pc' = "bulk"
    /\ UNCHANGED <<kind, rows, hist, user, now, ncalls>>

\* One round of the loop: the chunk is sliced and its instances built; they
\* are added and committed, or the building or the commit raises and the
\* except clause rolls back and re-raises.
bulk_chunk ==
    /\ pc = "bulk" /\ call.i < Len(call.objs)
    /\ LET objs_to_add == chunk(call.objs, call.i, call.batch_size)
           bad == first_raise(objs_to_add)
       IN IF bad # 0
          THEN /\ rows' = rows
               /\ call' = [call EXCEPT !.attempted = call.i + bad,
                                       !.rollbacks = @ + 1,
                                       !.outcome = "KeyError"]
               /\ pc' = "done"
          ELSE \/ /\ add_all_ok(rows, built(objs_to_add))
                  /\ rows' = add_all(rows, built(objs_to_add))
                  /\ call' = [call EXCEPT
                                 !.attempted = call.i + Len(objs_to_add),
                                 !.commits = @ + 1,
                                 !.chunks = Append(@, Len(objs_to_add)),
                                 !.i = @ + call.batch_size]
                  /\ pc' = "bulk"
               \/ /\ rows' = rows
                  /\ call' = [call EXCEPT
                                 !.attempted = call.i + Len(objs_to_add),
                                 !.commits = @ + 1, !.rollbacks = @ + 1,
                                 !.outcome =
                                    IF add_all_ok(rows, built(objs_to_add))
                                    THEN "OperationalError"
                                    ELSE "IntegrityError"]
                  /\ pc' = "done"
    /\ UNCHANGED <<kind, hist, user, now, ncalls>>

\* range(0, len(objs), batch_size) is exhausted: the call returns.
bulk_return ==
    /\ pc = "bulk" /\ call.i >= Len(call.objs)
    /\ call' = [call EXCEPT !.outcome = "ok"]
    /\ pc' = "done"
    /\ UNCHANGED <<kind, rows, hist, user, now, ncalls>>

InitBulk ==
    /\ kind = "base"
    /\ rows = {}
    /\ hist = <<>>
    /\ user = None
    /\ now = 1
    /\ pc = "idle"
    /\ ncalls = 0
    /\ call = NoCall

NextBulk ==
    \/ \E objs \in ObjsSet, batch_size \in 1..MaxBatch :
          bulk_create_async(objs, batch_size)
    \/ bulk_chunk
    \/ bulk_return

SpecBulk == InitBulk /\ [][NextBulk]_vars

\* ------------------------------- primary-key resolution, find and destroy
\* In this specification `kind` is the entity type by its __table__: the
\* names of the columns of its primary-key constraint.
MaxDestroys == 2

PrimaryKeys == {<<>>, <<"id">>, <<"id", "val">>}

DestroyIds == {1, 2, 3}

\* The ids a caller passes to destroy_async(*ids): absent ones and repeats too.
IdsSet == UNION {[1..n -> DestroyIds] : n \in 0..2}

\* The tables the calls start from: live rows and a soft-deleted one.
DestroyTables ==
    {{[NewEntity EXCEPT !.id = i, !.val = 1,
                        !.deleted = IF i = 2 THEN 1 ELSE None] : i \in S} :
        S \in SUBSET DestroyIds}

\* _get_primary_key_name(): primary_key.columns is a collection, never None,
\* so the first raise is never taken; more than one column raises
\* InvalidRequestError; primary_keys[0] of an empty collection raises
\* IndexError.
get_primary_key_name(primary_keys) ==
    IF Len(primary_keys) > 1
    THEN [name |-> "", raised |-> "InvalidRequestError"]
    ELSE IF Len(primary_keys) = 0
         THEN [name |-> "", raised |-> "IndexError"]
         ELSE [name |-> primary_keys[1], raised |-> "none"]

where_async_unfiltered(table, name, ids) == table

\* where_async(**{f"{primary_key}__in": ids}): select_async with that filter
\* and no other.
where_async_in(table, name, ids) ==
    {r \in table : \E i \in 1..Len(ids) : r[name] = ids[i]}

\* where_async(**{primary_key: id_}).
where_async(table, name, value) == {r \in table : r[name] = value}

NoLookup ==
    [op |-> "none", mode |-> "async", ids |-> <<>>, found |-> {},
     outcome |-> "none", queries |-> 0, commits |-> 0, rollbacks |-> 0,
     flushes |-> 0, entry |-> [rows |-> {}, hist |-> <<>>]]

LookupIdle == pc = "idle" /\ ncalls < MaxDestroys /\ ncalls' = ncalls + 1

\* destroy_async(*ids): the key is resolved; the rows with a key in ids are
\* loaded and each deleted in the session; one commit, then the flush; or the
\* commit raises, the session is rolled back and the error re-raised.
destroy_async(ids) ==
    /\ LookupIdle
    /\ LET primary_key == get_primary_key_name(kind.primary_keys)
           c == [NoLookup EXCEPT !.op = "destroy", !.ids = ids,
                                 !.entry = [rows |-> rows, hist |-> hist]]
       IN IF primary_key.raised # "none"
          THEN /\ rows' = rows
               /\ call' = [c EXCEPT !.outcome = primary_key.raised]
          ELSE LET loaded == where_async_in(rows, primary_key.name, ids)
               IN \/ /\ rows' = rows \ loaded
                     /\ call' = [c EXCEPT !.found = loaded, !.queries = 1,
                                          !.commits = 1, !.flushes = 1,
                                          !.outcome = "ok"]
                  \/ /\ rows' = rows
                     /\ call' = [c EXCEPT !.found = loaded, !.queries = 1,
                                          !.commits = 1, !.rollbacks = 1,
                                          !.outcome = "OperationalError"]
    /\ pc' = "done"
    /\ UNCHANGED <<kind, hist, user, now>>

\* find_async(id_): the key is resolved, then where_async(pk=id_).first().
find_async_call(op, id_) ==
    LET primary_key == get_primary_key_name(kind.primary_keys)
        c == [NoLookup EXCEPT !.op = op, !.ids = <<id_>>,
                              !.entry = [rows |-> rows, hist |-> hist]]
    IN IF primary_key.raised # "none"
       THEN [c EXCEPT !.outcome = primary_key.raised]
       ELSE [c EXCEPT !.found = where_async(rows, primary_key.name, id_),
                      !.queries = 1, !.outcome = "ok"]

find_async(id_) ==
    /\ LookupIdle
    /\ call' = find_async_call("find", id_)
    /\ pc' = "done"
    /\ UNCHANGED <<kind, rows, hist, user, now>>

\* find_or_fail_async(id_): find_async, and ModelNotFoundError for no row.
find_or_fail_async(id_) ==
    /\ LookupIdle
    /\ LET c == find_async_call("find_or_fail", id_)
       IN call' = IF c.outcome = "ok" /\ c.found = {}
                  THEN [c EXCEPT !.outcome = "ModelNotFoundError"]
                  ELSE c
    /\ pc' = "done"
    /\ UNCHANGED <<kind, rows, hist, user, now>>

LookupReturn ==
    /\ pc = "done"
    /\ pc' = "idle"
    /\ call' = NoLookup
    /\ UNCHANGED <<kind, rows, hist, user, now, ncalls>>

InitDestroy ==
    /\ kind \in {[primary_keys |-> p] : p \in PrimaryKeys}
    /\ rows \in DestroyTables
    /\ hist = <<>>
    /\ user = None
    /\ now = 1
    /\ pc = "idle"
    /\ ncalls = 0
    /\ call = NoLookup

NextDestroy ==
    \/ \E ids \in IdsSet : destroy_async(ids)
    \/ \E id_ \in DestroyIds : find_async(id_)
    \/ \E id_ \in DestroyIds : find_or_fail_async(id_)
    \/ LookupReturn

SpecDestroy == InitDestroy /\ [][NextDestroy]_vars

\* ------------------------------------- two callers updating the same row
\* In this specification pc and call are per caller, and ncalls counts the
\* commits the storage has taken.  Each caller holds its own instance of the
\* row (loaded by a query of its own) and calls update_async on it.
Callers == {1, 2}

ConcNames == {"val", "updated_at"}

\* The dicts the callers pass: one or two of the names, in every order.
ConcKwargsSet ==
    UNION {{k \in [1..n -> ConcNames \X Vals] :
               \A i, j \in 1..n : i # j => k[i][1] # k[j][1]} : n \in 1..2}

NoUpdate ==
    [op |-> "none", mode |-> "async", self |-> NewEntity,
     loaded |-> NewEntity, kwargs |-> <<>>, params |-> {},
     outcome |-> "none", seq |-> 0]

\* The columns of the UPDATE the session's flush emits for an instance: those
\* set since it was loaded to a value other than the loaded one.
dirty(self, loaded) == {name \in DOMAIN self : self[name] # loaded[name]}

\* The stored row after the UPDATE of those columns, WHERE id = the key.
updated(table, self, params) ==
    {[name \in DOMAIN r |->
         IF r.id = self.id /\ name \in params THEN self[name] ELSE r[name]] :
       r \in table}

\* The caller loads the row: its instance holds the values stored just now.
load(k) ==
    /\ pc[k] = "start"
    /\ \E r \in rows :
          call' = [call EXCEPT ![k] = [NoUpdate EXCEPT !.self = r,
                                                       !.loaded = r]]
    /\ pc' = [pc EXCEPT ![k] = "loaded"]
    /\ UNCHANGED <<kind, rows, hist, user, now, ncalls>>

\* update_async(**kwargs) up to its first suspension: fill on the caller's
\* instance, session.add(self), and the commit is awaited.
update_async_begin(k, kwargs) ==
    /\ pc[k] = "loaded"
    /\ LET f == fill(call[k].self, kwargs)
       IN call' = [call EXCEPT ![k] =
                      [@ EXCEPT !.op = "update", !.kwargs = kwargs,
                                !.self = f.self,
                                !.params = dirty(f.self, call[k].loaded),
                                !.outcome = "running"]]
    /\ pc' = [pc EXCEPT ![k] = "commit"]
    /\ UNCHANGED <<kind, rows, hist, user, now, ncalls>>

\* The awaited commit returns: the caller's UPDATE is in the table.
update_async_commit(k) ==
    /\ pc[k] = "commit"
    /\ rows' = updated(rows, call[k].self, call[k].params)
    /\ ncalls' = ncalls + 1
    /\ call' = [call EXCEPT ![k] = [@ EXCEPT !.outcome = "ok",
                                             !.seq = ncalls + 1]]
    /\ pc' = [pc EXCEPT ![k] = "done"]
    /\ UNCHANGED <<kind, hist, user, now>>

\* The awaited commit raises (the storage fails): rollback, and re-raise.
update_async_raise(k) ==
    /\ pc[k] = "commit"
    /\ call' = [call EXCEPT ![k] = [@ EXCEPT !.outcome = "OperationalError"]]
    /\ pc' = [pc EXCEPT ![k] = "done"]
    /\ UNCHANGED <<kind, rows, hist, user, now, ncalls>>

InitConc ==
    /\ kind = "base"
    /\ rows \in {{[NewEntity EXCEPT !.id = 1, !.val = v]} : v \in Vals}
    /\ hist = <<>>
    /\ user = None
    /\ now = 1
    /\ pc = [k \in Callers |-> "start"]
    /\ call = [k \in Callers |-> NoUpdate]
    /\ ncalls = 0

NextConc ==
    \/ \E k \in Callers : load(k)
    \/ \E k \in Callers, kwargs \in ConcKwargsSet :
          update_async_begin(k, kwargs)
    \/ \E k \in Callers : update_async_commit(k)
    \/ \E k \in Callers : update_async_raise(k)

SpecConc == InitConc /\ [][NextConc]_vars

\* ---------------------------- the user context under a second caller
\* A historicized entity whose calls are all made with an actor set, while
\* another caller of the same process sets the actor too.
UserIds == {1, 2}

\* Another caller's UserContext.set_user(user) while the call is between its
\* live commit and its snapshot write: the class attribute is the process's.
other_set_user(u) ==
    /\ pc = "history"
    /\ user' = u
    /\ UNCHANGED <<kind, rows, hist, now, pc, call, ncalls>>

InitUser ==
    /\ kind = "historical"
    /\ rows = {}
    /\ hist = <<>>
    /\ user \in UserIds
    /\ now = 1
    /\ pc = "idle"
    /\ call = NoCall
    /\ ncalls = 0

NextUser ==
    \/ \E kwargs \in KwargsSet : FAM_create(kwargs)
    \/ \E self \in rows, kwargs \in KwargsSet : FAM_update(self, kwargs)
    \/ \E self \in rows, t2 \in Times : FAM_delete(self, t2)
    \/ create_historical_record
    \/ create_historical_record_raise
    \/ Return
    \/ \E u \in UserIds : set_user(u)
    \/ \E u \in UserIds : other_set_user(u)

SpecUser == InitUser /\ [][NextUser]_vars

\* ================================================================ claims
\* The call has returned to the caller.
Returned(op) == pc = "done" /\ call.op = op
Layered == kind \in {"layered", "historical"}
LiveErrors == {"IntegrityError", "OperationalError"}

\* The row of the table with that primary key, as a set (empty or one row).
RowOf(table, i) == {r \in table : r.id = i}

\* C1: after create(x) and a delete() that returned, the row is still in
\* storage with its deleted timestamp set, an unfiltered query returns it and
\* all() does not.
C1_SoftDeleteRoundTrip ==
    (Returned("delete") /\ Layered /\ call.outcome = "ok")
        => /\ RowOf(call.entry.rows, call.target) # {}
           /\ \E r \in RowOf(rows, call.target) :
                 /\ r.deleted # None
                 /\ r \in query_all(rows)
                 /\ r \notin all(rows)
           /\ \A r \in all(rows) : r.id # call.target
           /\ Cardinality(rows) = Cardinality(call.entry.rows)

C1_Witness ==
    /\ Returned("delete") /\ kind = "layered" /\ call.outcome = "ok"
    /\ ncalls = 2
    /\ \E r \in call.entry.rows : r.id = call.target /\ r.deleted = None

\* The history_type each operation is to leave.
C2_Expected(via) ==
    CASE via = "create" -> "ADD"
      [] via = "update" -> "UPDATE"
      [] OTHER -> "DEL"

\* C2: a create, update or delete of a historicized entity that returned
\* (also the one upsert or get_or_create came to) has appended exactly one
\* snapshot, of type ADD, UPDATE and DEL respectively; a soft delete leaves
\* one DEL and no UPDATE snapshot.
C2_OneSnapshotPerCall ==
    (pc = "done" /\ kind = "historical" /\ call.outcome = "ok"
        /\ call.via \in {"create", "update", "delete"})
        => /\ Len(hist) = Len(call.entry.hist) + 1
           /\ SubSeq(hist, 1, Len(call.entry.hist)) = call.entry.hist
           /\ hist[Len(hist)].history_type = C2_Expected(call.via)
           /\ hist[Len(hist)].id = call.target

C2_Witness ==
    /\ Returned("delete") /\ kind = "historical" /\ call.outcome = "ok"
    /\ Len(hist) = 2
    /\ hist[1].history_type = "ADD" /\ hist[2].history_type = "DEL"

\* C3: upsert with the id of a soft-deleted row (given settable fields and a
\* storage that does not fail of itself) returns having inserted a fresh live
\* row for that id beside the old row, which keeps its deleted timestamp and
\* its other fields.
C3_UpsertBesideSoftDeleted ==
    (Returned("upsert") /\ Layered
        /\ call.outcome \notin {"OperationalError", "KeyError"}
        /\ \E old \in RowOf(call.entry.rows, call.key) : old.deleted # None)
        => /\ call.outcome = "ok"
           /\ \E r \in rows : r.id = call.key /\ r.deleted = None
           /\ \A old \in RowOf(call.entry.rows, call.key) : old \in rows

C3_Witness ==
    /\ Returned("upsert") /\ Layered
    /\ call.outcome = "IntegrityError"
    /\ rows = call.entry.rows
    /\ \E old \in RowOf(rows, call.key) : old.deleted # None

\* C4: get_or_create with the id of a live row, whatever the other fields,
\* returns that row as it is: no row is created, no field changed, nothing
\* is committed and no snapshot written.
C4_GetOrCreateHit ==
    (Returned("get_or_create")
        /\ \E r \in RowOf(call.entry.rows, call.key) :
              kind = "base" \/ r.deleted = None)
        => /\ call.via = "hit" /\ call.outcome = "ok"
           /\ call.self \in RowOf(call.entry.rows, call.key)
           /\ rows = call.entry.rows
           /\ hist = call.entry.hist
           /\ call.commits = 0 /\ call.rollbacks = 0 /\ call.snaps = 0

C4_Witness ==
    /\ Returned("get_or_create") /\ call.via = "hit" /\ kind = "historical"
    /\ ncalls = 2 /\ Len(hist) = 1
    /\ call.self.val = 1 /\ hist[1].history_type = "ADD"

\* C8: when the commit of a save, update, create or delete raises, in either
\* mode, the call has issued that one commit and one rollback, ends with the
\* storage's error and leaves the table and the log as it found them.
C8_CommitFailureRollsBack ==
    (pc = "done" /\ call.outcome \in LiveErrors)
        => /\ rows = call.entry.rows
           /\ hist = call.entry.hist
           /\ call.commits = 1 /\ call.rollbacks = 1 /\ call.snaps = 0

C8_Witness ==
    /\ Returned("update") /\ call.mode = "async"
    /\ call.outcome = "OperationalError"
    /\ \E r \in rows : r.val = 1

\* The snapshot repeats the live row column by column.
SameColumns(s, r) == \A i \in 1..Len(Columns) : s[Columns[i]] = r[Columns[i]]

\* C9: the snapshot is written after the live commit: a call whose fill or
\* live commit raised has written none; while the snapshot is pending the
\* live row is already in the table; and a snapshot the call has written
\* repeats a row the table holds.
C9_SnapshotAfterLiveCommit ==
    /\ (pc = "done" /\ call.outcome \in LiveErrors \cup {"KeyError"})
          => hist = call.entry.hist
    /\ pc = "history"
          => /\ hist = call.entry.hist
             /\ call.commits = 1
             /\ call.self \in rows
    /\ (pc = "done" /\ hist # call.entry.hist)
          => /\ call.commits = 2
             /\ \E r \in rows : SameColumns(hist[Len(hist)], r)

C9_Witness ==
    /\ Returned("update") /\ kind = "historical"
    /\ call.outcome = "OperationalError"
    /\ Len(hist) = 1

\* C10: when the live commit returned and the snapshot's commit raised, the
\* call ends with that error, the live row it committed is in the table and
\* the log is as the call found it.
C10_SnapshotFailureKeepsLiveRow ==
    (pc = "done" /\ call.outcome = "history_error")
        => /\ call.self \in rows
           /\ call.self.id = call.target
           /\ call.via = "create" => RowOf(call.entry.rows, call.target) = {}
           /\ call.via = "delete" => call.self.deleted # None
           /\ hist = call.entry.hist
           /\ call.commits = 2 /\ call.rollbacks = 1 /\ call.snaps = 0

C10_Witness ==
    /\ Returned("create") /\ call.outcome = "history_error"
    /\ rows # call.entry.rows
    /\ hist = <<>>

\* The place of the first name of kwargs that is no settable attribute (0
\* when every name is one).
FirstUnknown(self, kwargs) ==
    IF \A i \in 1..Len(kwargs) : kwargs[i][1] \in DOMAIN self THEN 0
    ELSE CHOOSE i \in 1..Len(kwargs) :
            /\ kwargs[i][1] \notin DOMAIN self
            /\ \A j \in 1..(i - 1) : kwargs[j][1] \in DOMAIN self

\* C5, as claimed: a fill that names an unknown attribute raises and leaves
\* every field of the instance as it was, the valid fields of the same call
\* included, wherever they stand.
C5_FillAllOrNothing ==
    (pc = "done" /\ call.op = "fill"
        /\ FirstUnknown(call.before, call.kwargs) # 0)
        => call.outcome = "KeyError" /\ call.self = call.before

\* C5, amended: a fill that names an unknown attribute raises KeyError; the
\* names before the first unknown one have been assigned, every other field
\* is as it was.
C5_FillStopsAtFirstUnknown ==
    (pc = "done" /\ call.op = "fill"
        /\ FirstUnknown(call.before, call.kwargs) # 0)
        => /\ call.outcome = "KeyError"
           /\ LET u == FirstUnknown(call.before, call.kwargs)
              IN \A name \in DOMAIN call.before :
                    call.self[name] =
                        IF \E j \in 1..(u - 1) : call.kwargs[j][1] = name
                        THEN Get(SubSeq(call.kwargs, 1, u - 1), name)
                        ELSE call.before[name]

C5_Witness ==
    /\ pc = "done" /\ call.op = "fill" /\ call.outcome = "KeyError"
    /\ call.kwargs = <<<<"val", 2>>, <<"bogus", 1>>, <<"id", 2>>>>
    /\ call.before.val = 1 /\ call.before.id = 1
    /\ call.self.val = 2 /\ call.self.id = 1

\* The objects persisted, by the val each was given (its place in objs).
BulkVals == {r.val : r \in rows}

\* C6: bulk_create commits consecutive chunks of at most batch_size, once per
\* chunk and in input order; when chunk k raises, building or committing,
\* exactly the objects of chunks 1..k-1 are in the table, no later chunk is
\* tried and the error leaves the call after one rollback.
C6_BulkCreateChunks ==
    call.op = "bulk_create"
        => LET n == Len(call.objs)
               bs == call.batch_size
               m == Len(call.chunks)
           IN /\ \A j \in 1..m :
                    /\ call.chunks[j] = Min(bs, n - (j - 1) * bs)
                    /\ call.chunks[j] \in 1..bs
              /\ BulkVals = 1..Min(m * bs, n)
              /\ Cardinality(rows) = Min(m * bs, n)
              /\ call.outcome = "running"
                    => /\ call.i = m * bs
                       /\ call.commits = m /\ call.rollbacks = 0
              /\ call.outcome = "ok"
                    => /\ m * bs >= n
                       /\ call.commits = m /\ call.rollbacks = 0
              /\ call.outcome \in LiveErrors \cup {"KeyError"}
                    => /\ pc = "done"
                       /\ m * bs < n
                       /\ call.attempted \in (m * bs + 1)..Min((m + 1) * bs, n)
                       /\ call.rollbacks = 1
                       /\ call.commits =
                             IF call.outcome = "KeyError" THEN m ELSE m + 1

C6_Witness ==
    /\ pc = "done" /\ call.op = "bulk_create"
    /\ call.outcome = "IntegrityError"
    /\ call.batch_size = 2 /\ Len(call.objs) = 5
    /\ call.chunks = <<2, 2>>

\* Five objects, the fourth with a name that is no attribute, batch_size 2.
C7_Input ==
    /\ call.op = "bulk_create" /\ call.batch_size = 2
    /\ call.objs = [k \in 1..5 |-> Obj(k, IF k = 4 THEN "bad" ELSE "ok")]

C7_AllValid ==
    /\ call.op = "bulk_create" /\ call.batch_size = 2
    /\ call.objs = [k \in 1..5 |-> Obj(k, "ok")]

\* C7, as claimed: with the fourth object invalid the chunks of objects 1-2
\* and of objects 3-4 are both committed and object 5 is never tried.
C7_FourthInvalidTwoChunks ==
    (pc = "done" /\ C7_Input /\ call.outcome = "KeyError")
        => /\ call.chunks = <<2, 2>>
           /\ BulkVals = 1..4
           /\ call.attempted < 5

\* C7, amended: five valid objects are committed in chunks of 2, 2 and 1;
\* with the fourth object invalid the call raises, only the chunk of objects
\* 1-2 is committed, objects 3 and 4 are not persisted and object 5 is never
\* tried.
C7_FourthInvalidOneChunk ==
    /\ (pc = "done" /\ C7_AllValid /\ call.outcome = "ok")
          => call.chunks = <<2, 2, 1>> /\ BulkVals = 1..5
    /\ (pc = "done" /\ C7_Input) => call.outcome # "ok"
    /\ (pc = "done" /\ C7_Input /\ call.outcome = "KeyError")
          => /\ call.chunks = <<2>>
             /\ BulkVals = 1..2
             /\ call.attempted = 4
             /\ call.commits = 1 /\ call.rollbacks = 1

C7_Witness ==
    /\ pc = "done" /\ C7_Input /\ call.outcome = "KeyError"
    /\ Cardinality(rows) = 2

\* C11: on an entity type with no or with several primary-key columns,
\* find, find_or_fail and destroy end with InvalidRequestError and with no
\* other error, before any query, commit or rollback.
C11_InvalidSchema ==
    (pc = "done" /\ call.op \in {"destroy", "find", "find_or_fail"}
        /\ Len(kind.primary_keys) # 1)
        => /\ call.outcome = "InvalidRequestError"
           /\ call.queries = 0 /\ call.commits = 0 /\ call.rollbacks = 0
           /\ rows = call.entry.rows

C11_Witness ==
    /\ pc = "done" /\ call.op = "destroy"
    /\ kind.primary_keys = <<>>
    /\ call.outcome = "IndexError"
    /\ call.queries = 0 /\ rows = call.entry.rows

\* C12: on a type with one primary-key column, a destroy that returned has
\* removed exactly the rows whose key is among its ids, with one commit and
\* no rollback, and where(pk__in=ids) is then empty.
C12_DestroyExactly ==
    (pc = "done" /\ call.op = "destroy" /\ Len(kind.primary_keys) = 1
        /\ call.outcome = "ok")
        => /\ rows = {r \in call.entry.rows :
                         \A i \in 1..Len(call.ids) : r.id # call.ids[i]}
           /\ where_async_in(rows, kind.primary_keys[1], call.ids) = {}
           /\ call.commits = 1 /\ call.rollbacks = 0

C12_Witness ==
    /\ pc = "done" /\ call.op = "destroy" /\ call.outcome = "ok"
    /\ call.ids = <<2, 1>>
    /\ Cardinality(call.entry.rows) = 3
    /\ Cardinality(rows) = 1

\* C13: in every state, no row of a layered entity whose deleted timestamp
\* is set is returned by all or where, blocking or suspending.
C13_SoftDeletedExcluded ==
    Layered
        => \A r \in rows :
              r.deleted # None
                 => /\ r \notin all(rows)
                    /\ r \notin where(rows, "id", r.id)
                    /\ r \notin all_async(rows)
                    /\ r \notin where_async(rows, "id", r.id)

C13_Witness ==
    /\ kind = "layered" /\ pc = "idle"
    /\ \E r \in rows :
          /\ r.deleted # None
          /\ r \notin all(rows)
          /\ r \in where(rows, "id", r.id)
          /\ r \in all_async(rows)

\* A delete of a layered entity that was already soft-deleted has returned.
C14_DoubleDelete ==
    (Returned("delete") /\ Layered /\ call.outcome = "ok"
        /\ \E old \in RowOf(call.entry.rows, call.target) : old.deleted # None)
        => \A old \in RowOf(call.entry.rows, call.target) :
              \E new \in RowOf(rows, call.target) :
                 /\ new.deleted = now
                 /\ new.updated_at \in {now - 1, now}
                 /\ new.updated_by_id =
                       IF user # None THEN user ELSE old.updated_by_id
                 /\ new.id = old.id /\ new.val = old.val

\* C14: no step on a layered entity takes a row out of the table (a row
\* leaves the set only as the rewritten row enters it); a delete never ends
\* with an error of the engine's own, and a delete of an already soft-deleted
\* row sets deleted and updated_at to the clock again, updated_by to the actor
\* if one is set, and changes nothing else.
C14_DeleteNeverRemoves ==
    /\ [][Layered => /\ Cardinality(rows') >= Cardinality(rows)
                     /\ Cardinality(rows \ rows') <= 1
                     /\ Cardinality(rows \ rows') <= Cardinality(rows' \ rows)
         ]_vars
    /\ []((Returned("delete") /\ Layered)
             => call.outcome \notin {"KeyError", "IntegrityError"})
    /\ []C14_DoubleDelete

C14_Witness ==
    /\ Returned("delete") /\ kind = "layered" /\ call.outcome = "ok"
    /\ user = 1 /\ now = 2
    /\ \E old \in RowOf(call.entry.rows, call.target) :
          old.deleted = 1 /\ old.updated_by_id = None
    /\ \E new \in RowOf(rows, call.target) :
          new.deleted = 2 /\ new.updated_by_id = 1

\* C15, as claimed: a create, update or delete that got past fill has issued
\* exactly one commit when it ends, and a rollback only if that commit
\* raised.
C15_OneCommitPerCall ==
    (pc = "done" /\ call.via \in {"create", "update", "delete"}
        /\ call.outcome # "KeyError")
        => /\ call.commits = 1
           /\ call.rollbacks = IF call.outcome \in LiveErrors THEN 1 ELSE 0

\* C15, amended: a call whose fill raised has issued no commit and no
\* rollback; otherwise it has issued one commit for the live row, and on a
\* historicized entity, once that commit returned, a second one for the
\* snapshot; one rollback if the commit it issued last raised, none
\* otherwise.
C15_OneCommitPerTransaction ==
    /\ (pc = "done" /\ call.via \in {"create", "update", "delete"})
          => /\ call.commits =
                   CASE call.outcome = "KeyError" -> 0
                     [] call.outcome \in LiveErrors -> 1
                     [] kind = "historical" -> 2
                     [] OTHER -> 1
             /\ call.rollbacks =
                   IF call.outcome \in LiveErrors \cup {"history_error"}
                   THEN 1 ELSE 0
    /\ pc = "history" => call.commits = 1 /\ call.rollbacks = 0

C15_Witness ==
    /\ Returned("update") /\ kind = "historical" /\ call.outcome = "ok"
    /\ call.commits = 2 /\ call.rollbacks = 0 /\ call.snaps = 1

\* C16: when two callers have each updated the row and both commits
\* returned, the stored row holds, for every field the caller that committed
\* last supplied, the value it supplied.
C16_LastWriteWins ==
    (\A k \in Callers : pc[k] = "done" /\ call[k].outcome = "ok")
        => \A k \in Callers :
              call[k].seq = Cardinality(Callers)
                 => \A r \in rows :
                       \A i \in 1..Len(call[k].kwargs) :
                          r[call[k].kwargs[i][1]] = call[k].kwargs[i][2]

C16_Witness ==
    /\ \A k \in Callers : pc[k] = "done" /\ call[k].outcome = "ok"
    /\ call[1].seq = 1 /\ call[1].kwargs = <<<<"val", 2>>>>
    /\ call[2].seq = 2 /\ call[2].kwargs = <<<<"val", 1>>>>
    /\ call[2].loaded.val = 1 /\ call[2].params = {}
    /\ \A r \in rows : r.val = 2

\* The same call in the other execution mode.
OtherMode(c) == [c EXCEPT !.mode = IF @ = "sync" THEN "async" ELSE "sync"]

\* The table a call of the record engine leaves, by its operation, its
\* instance and the storage's answer alone.
C17_EndsAs(c) ==
    CASE c.outcome # "ok" -> rows = c.entry.rows
      [] c.via = "delete" ->
            rows = c.entry.rows \ find(c.entry.rows, c.target)
      [] c.via = "create" -> rows = c.entry.rows \cup {c.self}
      [] OTHER -> /\ c.self \in rows
                  /\ Cardinality(rows) = Cardinality(c.entry.rows)
                  /\ Cardinality(c.entry.rows \ rows) <= 1

\* C17: a create, update or delete of the record engine ends, in the
\* blocking and in the suspending mode alike, with the table, the commit and
\* the rollback that its arguments and the storage's answer determine, and
\* hands its caller the same result in either mode.
C17_ModesAgree ==
    (pc = "done" /\ kind = "base"
        /\ call.op \in {"create", "update", "delete"})
        => /\ C17_EndsAs(call)
           /\ call.commits = IF call.outcome = "KeyError" THEN 0 ELSE 1
           /\ call.rollbacks = IF call.outcome \in LiveErrors THEN 1 ELSE 0
           /\ returns(call) = returns(OtherMode(call))

\* The part of C17 about the storage and the transaction.
C17_StorageAgrees ==
    (pc = "done" /\ kind = "base"
        /\ call.op \in {"create", "update", "delete"})
        => /\ C17_EndsAs(call)
           /\ call.commits = IF call.outcome = "KeyError" THEN 0 ELSE 1
           /\ call.rollbacks = IF call.outcome \in LiveErrors THEN 1 ELSE 0

C17_Witness ==
    /\ Returned("delete") /\ kind = "base" /\ call.outcome = "ok"
    /\ call.mode = "sync"
    /\ rows = call.entry.rows \ {call.self}
    /\ returns(call) = {}
    /\ returns(OtherMode(call)) = {call.self}

\* C18: every step leaves the snapshots written so far in place and
\* unchanged, and adds at most one snapshot, whose history_id no earlier
\* snapshot has and whose live columns are those of the call's instance.
C18_SnapshotsAppendOnly ==
    [][/\ Len(hist') \in {Len(hist), Len(hist) + 1}
       /\ SubSeq(hist', 1, Len(hist)) = hist
       /\ Len(hist') = Len(hist) + 1
             => /\ \A i \in 1..Len(hist) :
                      hist[i].history_id # hist'[Len(hist')].history_id
                /\ SameColumns(hist'[Len(hist')], call.self)
      ]_vars

C18_Witness ==
    /\ pc = "done" /\ kind = "historical" /\ call.outcome = "ok"
    /\ Len(hist) = 2 /\ call.entry.hist = <<hist[1]>>
    /\ hist[1].history_id = 1 /\ hist[2].history_id = 2
    /\ hist[1].history_type = "ADD" /\ hist[2].history_type = "UPDATE"

\* The soft-deleted rows of a table.
SoftDeleted(table) == {r \in table : r.deleted # None}

\* C19: no step on a layered entity (its calls supply no deleted field)
\* revives a soft-deleted row or takes it out of the table: each stays as it
\* is, or is rewritten by the call into a row that is soft-deleted too.
C19_SoftDeletedIsTerminal ==
    [][Layered
          => /\ \A r \in SoftDeleted(rows) :
                   \/ r \in rows'
                   \/ \E w \in SoftDeleted(rows') \ rows :
                         rows' = (rows \ {r}) \cup {w}
             /\ Cardinality(SoftDeleted(rows'))
                   >= Cardinality(SoftDeleted(rows))
      ]_vars

C19_Witness ==
    /\ Returned("update") /\ kind = "layered" /\ call.outcome = "ok"
    /\ \E old \in RowOf(call.entry.rows, call.target) :
          \E new \in RowOf(rows, call.target) :
             /\ old.deleted # None
             /\ new.deleted = old.deleted
             /\ new.val # old.val

\* C20, as claimed: the snapshot a create, update or delete has written
\* carries as history_user_id the updated_by_id the call stamped on the live
\* row, whatever another caller's set_user did meanwhile.
C20_SnapshotActorIsStampedActor ==
    (pc = "done" /\ call.outcome = "ok"
        /\ call.via \in {"create", "update", "delete"})
        => /\ hist[Len(hist)].updated_by_id = call.self.updated_by_id
           /\ hist[Len(hist)].history_user_id = call.self.updated_by_id

\* C20, amended: the call stamps the live row with the actor set when it
\* fills it; the snapshot repeats that updated_by_id and carries as
\* history_user_id the actor set when the snapshot is written (the same
\* actor unless set_user changed it in between); and no step of the engines
\* changes the actor.
C20_SnapshotActorIsCurrentActor ==
    /\ [][(pc = "idle" /\ pc' = "history")
             => call'.self.updated_by_id = user]_vars
    /\ [][Len(hist') = Len(hist) + 1
             => /\ hist'[Len(hist')].updated_by_id = call.self.updated_by_id
                /\ hist'[Len(hist')].history_user_id = user
                /\ user = call.self.updated_by_id
                      => hist'[Len(hist')].history_user_id
                            = hist'[Len(hist')].updated_by_id]_vars
    /\ [][(pc' # pc \/ call' # call) => user' = user]_vars

C20_Witness ==
    /\ Returned("update") /\ call.outcome = "ok"
    /\ Len(hist) = 2
    /\ hist[2].updated_by_id = 1 /\ hist[2].history_user_id = 2
    /\ call.self.updated_by_id = 1 /\ user = 2

====
